---- MODULE Spec2Model ----
(***************************************************************************)
(* Model of the welcome-email microservice (src/app.py): one HTTP endpoint *)
(* POST /send-welcome-email served by a single event loop, the pydantic    *)
(* body validation that runs before the handler, the API-key check, and    *)
(* send_gmail with its SMTP_SSL connection (connect, login, sendmail,      *)
(* context-manager exit).                                                  *)
(*                                                                         *)
(* Text is a sequence of tokens: an email address is a sequence of         *)
(* one-character strings, a literal of the source is one token.            *)
(* A Python value that may be None is a set: {} is None, {s} is the        *)
(* string s.                                                               *)
(***************************************************************************)
EXTENDS Integers, Sequences, FiniteSets, TLC

\* number of HTTP requests the model lets arrive
MaxRequests == 2

Requests == 1..MaxRequests

VARIABLES
    INTERNAL_API_KEY,   \* os.getenv("INTERNAL_API_KEY")
    FRONTEND_URL,       \* os.getenv("FRONTEND_URL", "http://localhost:3000")
    SENDER_EMAIL,       \* os.getenv("SENDER_EMAIL")
    req,                \* req[r]: the HTTP request r as it arrived
    pc,                 \* pc[r]: where request r is
    loop,               \* the request the event-loop thread is running, 0 if free
    payload,            \* payload[r]: the UserPayload pydantic built for r
    mailerCalls,        \* mailerCalls[r]: calls of send_gmail made for r
    mailerArgs,         \* mailerArgs[r]: (receiver_email, username) of the call
    message,            \* message[r]: the MIME message send_gmail built
    conns,              \* every SMTP connection ever opened: [owner, state]
    server,             \* server[r]: index in conns of r's connection, 0 if none
    steps,              \* steps[r]: SMTP operations attempted for r, in order
    exc,                \* exc[r]: the exception propagating in r, {} if none
    outbox,             \* messages the SMTP server accepted, in order
    resp                \* resp[r]: the HTTP response to r

vars == <<INTERNAL_API_KEY, FRONTEND_URL, SENDER_EMAIL, req, pc, loop, payload,
          mailerCalls, mailerArgs, message, conns, server, steps, exc, outbox,
          resp>>

-----------------------------------------------------------------------------
\* Input samples

KeySamples == {{}, {""}, {"k1"}}
HeaderSamples == {{}, {""}, {"k1"}, {"k2"}}
UrlSamples == {<<"http://localhost:3000">>, <<"https://lms.example">>}
UsernameSamples == {"Alice"}

EmailSamples ==
    { <<"a", "@", "b", ".", "a">>,          \* already normalised
      <<" ", "B", "@", "B", ".", "a">>,     \* leading blank, upper-case letters
      <<"a", "@", "b">> }                   \* no period in the domain

NoReq == [header |-> {}, has_email |-> FALSE, email |-> <<>>,
          has_username |-> FALSE, username |-> ""]

RequestSamples ==
    { [header |-> h, has_email |-> TRUE, email |-> e,
       has_username |-> hu, username |-> IF hu THEN u ELSE ""] :
         h \in HeaderSamples, e \in EmailSamples, hu \in BOOLEAN,
         u \in UsernameSamples }
    \cup
    { [header |-> h, has_email |-> FALSE, email |-> <<>>,
       has_username |-> hu, username |-> IF hu THEN u ELSE ""] :
         h \in HeaderSamples, hu \in BOOLEAN, u \in UsernameSamples }

-----------------------------------------------------------------------------
\* EmailStr: pydantic's validate_email on top of email_validator

RECURSIVE lstrip(_)
lstrip(s) == IF s # <<>> /\ Head(s) = " " THEN lstrip(Tail(s)) ELSE s

RECURSIVE rstrip(_)
rstrip(s) ==
    IF s # <<>> /\ s[Len(s)] = " " THEN rstrip(SubSeq(s, 1, Len(s) - 1)) ELSE s

strip(s) == rstrip(lstrip(s))

lower(c) == IF c = "A" THEN "a" ELSE IF c = "B" THEN "b" ELSE c

Letters == {"a", "b", "A", "B"}

AtPositions(s) == {i \in 1..Len(s) : s[i] = "@"}

\* a dot-atom: letters separated by single periods
IsDotAtom(s) ==
    /\ s # <<>>
    /\ \A i \in 1..Len(s) : s[i] \in Letters \cup {"."}
    /\ s[1] # "."
    /\ s[Len(s)] # "."
    /\ \A i \in 1..(Len(s) - 1) : ~(s[i] = "." /\ s[i + 1] = ".")

local_part(e) == SubSeq(e, 1, (CHOOSE i \in AtPositions(e) : TRUE) - 1)
domain_part(e) == SubSeq(e, (CHOOSE i \in AtPositions(e) : TRUE) + 1, Len(e))

\* email_validator.validate_email(email, check_deliverability=False) accepts e
EmailSyntaxOk(e) ==
    /\ Cardinality(AtPositions(e)) = 1
    /\ IsDotAtom(local_part(e))
    /\ IsDotAtom(domain_part(e))
    /\ \E i \in 1..Len(domain_part(e)) : domain_part(e)[i] = "."

\* the value EmailStr accepts
IsValidEmail(value) == EmailSyntaxOk(strip(value))

\* the value EmailStr hands to the model: parts.normalized
validate_email(value) ==
    LET e == strip(value)
        d == domain_part(e)
    IN  local_part(e) \o <<"@">> \o [i \in 1..Len(d) |-> lower(d[i])]

\* UserPayload(email: EmailStr, username: str) accepts the JSON body
BodyValidNoUsername(q) == q.has_email /\ IsValidEmail(q.email)
BodyValidAnyAt(q) ==
    q.has_email /\ q.has_username /\ Cardinality(AtPositions(strip(q.email))) = 1
BodyValid(q) == q.has_email /\ q.has_username /\ IsValidEmail(q.email)

NoPayload == [email |-> <<>>, username |-> ""]

UserPayload(q) == [email |-> validate_email(q.email), username |-> q.username]

-----------------------------------------------------------------------------
\* The handler's pure parts

\* not (not api_key or api_key != INTERNAL_API_KEY)
AuthorizedNoTruthiness(api_key, key) == api_key = key
AuthorizedNoCompare(api_key, key) == ~(api_key = {} \/ api_key = {""})
Authorized(api_key, key) ==
    ~((api_key = {} \/ api_key = {""}) \/ api_key # key)

NoResp == [status |-> 0, body |-> <<>>]

ValidationError == [status |-> 422, body |-> <<"validation error">>]

Unauthorized == [status |-> 401, body |-> <<"Invalid or missing API key">>]

SuccessNoRecipient(email) ==
    [status |-> 200, body |-> <<"Email sent successfully to ">>]
Success(email) ==
    [status |-> 200, body |-> <<"Email sent successfully to ">> \o email]

InternalErrorNoText(e) ==
    [status |-> 500, body |-> <<"Failed to send email: ">>]
InternalError(e) ==
    [status |-> 500, body |-> <<"Failed to send email: ", e>>]

\* f"{FRONTEND_URL}/login?email={receiver_email}"
LoginUrlEncoded(base, receiver_email) ==
    base \o <<"/login?email=">> \o
    [i \in 1..Len(receiver_email) |->
        IF receiver_email[i] = "@" THEN "%40" ELSE receiver_email[i]]
LoginUrl(base, receiver_email) ==
    base \o <<"/login?email=">> \o receiver_email

\* the html f-string, as its literal pieces and interpolations in order
Html(username, login_url) ==
    << <<"<div><h2>Welcome to SMBJugaad LMS, ">>,
       <<username>>,
       <<"!</h2><p>...</p><a href=\"">>,
       login_url,
       <<"\" style=\"...\">Log in to SMBJugaad</a><p>...</p><p>">>,
       login_url,
       <<"</p><hr/><p>(c) 2025 SMBJugaad LMS</p></div>">> >>

NoMessage == [Subject |-> "", From |-> <<>>, To |-> <<>>, html |-> <<>>]

BuildMessage(sender, base, receiver_email, username) ==
    [Subject |-> "Welcome to SMBJugaad LMS",
     From    |-> <<"SMBJugaad LMS <">> \o sender \o <<">">>,
     To      |-> receiver_email,
     html    |-> Html(username, LoginUrl(base, receiver_email))]

-----------------------------------------------------------------------------
TypeOK ==
    /\ INTERNAL_API_KEY \in KeySamples
    /\ FRONTEND_URL \in UrlSamples
    /\ \A r \in Requests : req[r].header \in HeaderSamples
    /\ pc \in [Requests ->
                 {"idle", "pending", "connect", "login", "sendmail", "exit", "done"}]
    /\ loop \in {0} \cup Requests
    /\ mailerCalls \in [Requests -> Nat]
    /\ server \in [Requests -> 0..Len(conns)]

Init ==
    /\ INTERNAL_API_KEY \in KeySamples
    /\ FRONTEND_URL \in UrlSamples
    /\ SENDER_EMAIL = <<"s", "@", "b", ".", "a">>
    /\ req = [r \in Requests |-> NoReq]
    /\ pc = [r \in Requests |-> "idle"]
    /\ loop = 0
    /\ payload = [r \in Requests |-> NoPayload]
    /\ mailerCalls = [r \in Requests |-> 0]
    /\ mailerArgs = [r \in Requests |-> NoPayload]
    /\ message = [r \in Requests |-> NoMessage]
    /\ conns = <<>>
    /\ server = [r \in Requests |-> 0]
    /\ steps = [r \in Requests |-> <<>>]
    /\ exc = [r \in Requests |-> {}]
    /\ outbox = <<>>
    /\ resp = [r \in Requests |-> NoResp]

config == <<INTERNAL_API_KEY, FRONTEND_URL, SENDER_EMAIL>>

\* A client posts request r; requests are numbered in order of arrival.
Receive(r) ==
    /\ pc[r] = "idle"
    /\ \A p \in Requests : p < r => pc[p] # "idle"
    /\ \E q \in RequestSamples : req' = [req EXCEPT ![r] = q]
    /\ pc' = [pc EXCEPT ![r] = "pending"]
    /\ UNCHANGED <<config, loop, payload, mailerCalls, mailerArgs, message,
                   conns, server, steps, exc, outbox, resp>>

\* The event loop picks up r: FastAPI builds the UserPayload parameter, then
\* runs the coroutine send_welcome_email_endpoint up to the SMTP connect.
Dispatch(r) ==
    /\ pc[r] = "pending"
    /\ loop = 0
    /\ IF ~BodyValid(req[r])
       THEN /\ resp' = [resp EXCEPT ![r] = ValidationError]
            /\ pc' = [pc EXCEPT ![r] = "done"]
            /\ UNCHANGED <<loop, payload, mailerCalls, mailerArgs, message>>
       ELSE /\ payload' = [payload EXCEPT ![r] = UserPayload(req[r])]
            /\ IF ~Authorized(req[r].header, INTERNAL_API_KEY)
               THEN /\ resp' = [resp EXCEPT ![r] = Unauthorized]
                    /\ pc' = [pc EXCEPT ![r] = "done"]
                    /\ UNCHANGED <<loop, mailerCalls, mailerArgs, message>>
               ELSE /\ mailerCalls' = [mailerCalls EXCEPT ![r] = @ + 1]
                    /\ mailerArgs' = [mailerArgs EXCEPT ![r] = payload'[r]]
                    /\ message' = [message EXCEPT ![r] =
                          BuildMessage(SENDER_EMAIL, FRONTEND_URL,
                                       payload'[r].email, payload'[r].username)]
                    /\ pc' = [pc EXCEPT ![r] = "connect"]
                    /\ loop' = r
                    /\ UNCHANGED resp
    /\ UNCHANGED <<config, req, conns, server, steps, exc, outbox>>

\* except Exception as e: raise HTTPException(500, ...); the coroutine ends
Fail(r, e) ==
    /\ exc' = [exc EXCEPT ![r] = {e}]
    /\ resp' = [resp EXCEPT ![r] = InternalError(e)]
    /\ pc' = [pc EXCEPT ![r] = "done"]
    /\ loop' = 0

\* smtplib.SMTP_SSL("smtp.gmail.com", 465, context=context)
Connect(r) ==
    /\ pc[r] = "connect"
    /\ loop = r
    /\ \E outcome \in {"ok", "refused", "greeting"} :
         /\ steps' = [steps EXCEPT ![r] = Append(@, <<"connect", outcome = "ok">>)]
         /\            CASE outcome = "ok" ->
                   /\ conns' = Append(conns, [owner |-> r, state |-> "open"])
                   /\ server' = [server EXCEPT ![r] = Len(conns) + 1]
                   /\ pc' = [pc EXCEPT ![r] = "login"]
                   /\ UNCHANGED <<loop, resp, exc>>
              [] outcome = "refused" ->
                   \* the socket was never created
                   /\ Fail(r, "ConnectionRefusedError")
                   /\ UNCHANGED <<conns, server>>
              [] outcome = "greeting" ->
                   \* code != 220: self.close(); raise SMTPConnectError
                   /\ conns' = Append(conns, [owner |-> r, state |-> "closed"])
                   /\ Fail(r, "SMTPConnectError")
                   /\ UNCHANGED server
    /\ UNCHANGED <<config, req, payload, mailerCalls, mailerArgs, message,
                   outbox>>

\* server.login(SENDER_EMAIL, SENDER_APP_PASSWORD)
LoginIgnoringFailure(r) ==
    /\ pc[r] = "login"
    /\ loop = r
    /\ \E ok \in BOOLEAN :
         /\ steps' = [steps EXCEPT ![r] = Append(@, <<"login", ok>>)]
         /\ pc' = [pc EXCEPT ![r] = "sendmail"]
         /\ UNCHANGED exc
    /\ UNCHANGED <<config, req, loop, payload, mailerCalls, mailerArgs,
                   message, conns, server, outbox, resp>>
Login(r) ==
    /\ pc[r] = "login"
    /\ loop = r
    /\ \E ok \in BOOLEAN :
         /\ steps' = [steps EXCEPT ![r] = Append(@, <<"login", ok>>)]
         /\ IF ok
            THEN /\ pc' = [pc EXCEPT ![r] = "sendmail"]
                 /\ UNCHANGED exc
            ELSE /\ pc' = [pc EXCEPT ![r] = "exit"]
                 /\ exc' = [exc EXCEPT ![r] = {"SMTPAuthenticationError"}]
    /\ UNCHANGED <<config, req, loop, payload, mailerCalls, mailerArgs,
                   message, conns, server, outbox, resp>>

\* server.sendmail(SENDER_EMAIL, receiver_email, message.as_string())
Sendmail(r) ==
    /\ pc[r] = "sendmail"
    /\ loop = r
    /\ \E ok \in BOOLEAN :
         /\ steps' = [steps EXCEPT ![r] = Append(@, <<"sendmail", ok>>)]
         /\ IF ok
            THEN /\ outbox' = Append(outbox,
                        [request |-> r, conn |-> server[r],
                         from_addr |-> SENDER_EMAIL,
                         to_addrs |-> mailerArgs[r].email,
                         msg |-> message[r]])
                 /\ UNCHANGED exc
            ELSE /\ exc' = [exc EXCEPT ![r] = {"SMTPRecipientsRefused"}]
                 /\ UNCHANGED outbox
    /\ pc' = [pc EXCEPT ![r] = "exit"]
    /\ UNCHANGED <<config, req, loop, payload, mailerCalls, mailerArgs,
                   message, conns, server, resp>>

\* SMTP.__exit__'s finally: self.close()
CloseLeakOnError(cs, i, failed) ==
    IF failed THEN cs ELSE [cs EXCEPT ![i].state = "closed"]
Close(cs, i, failed) == [cs EXCEPT ![i].state = "closed"]

\* Leaving the with block: SMTP.__exit__ sends QUIT and closes; then
\* send_gmail returns or raises and the handler answers.
Exit(r) ==
    /\ pc[r] = "exit"
    /\ loop = r
    /\ steps' = [steps EXCEPT ![r] = Append(@, <<"close", TRUE>>)]
    /\ conns' = Close(conns, server[r], exc[r] # {})
    /\ \E quit \in {"221", "other", "disconnected"} :
         LET raised == IF quit = "other" THEN {"SMTPResponseException"}
                       ELSE exc[r]
         IN  IF raised = {}
             THEN /\ resp' = [resp EXCEPT ![r] = Success(payload[r].email)]
                  /\ pc' = [pc EXCEPT ![r] = "done"]
                  /\ loop' = 0
                  /\ UNCHANGED exc
             ELSE Fail(r, CHOOSE e \in raised : TRUE)
    /\ UNCHANGED <<config, req, payload, mailerCalls, mailerArgs, message,
                   server, outbox>>

Next ==
    \E r \in Requests :
        \/ Receive(r)
        \/ Dispatch(r)
        \/ Connect(r)
        \/ Login(r)
        \/ Sendmail(r)
        \/ Exit(r)

Spec == Init /\ [][Next]_vars

-----------------------------------------------------------------------------
\* The same endpoint serving one request whose email is any short text.

MaxEmailLen == 6

Chars == {"a", "B", "@", ".", " "}

Texts == UNION {[1..n -> Chars] : n \in 0..MaxEmailLen}

InitEmail ==
    /\ INTERNAL_API_KEY \in KeySamples
    /\ FRONTEND_URL \in UrlSamples
    /\ SENDER_EMAIL = <<"s", "@", "b", ".", "a">>
    /\ \E h \in {{}, {"k1"}}, e \in Texts :
         req = [r \in Requests |->
                  IF r = 1
                  THEN [header |-> h, has_email |-> TRUE, email |-> e,
                        has_username |-> TRUE, username |-> "Alice"]
                  ELSE NoReq]
    /\ pc = [r \in Requests |-> IF r = 1 THEN "pending" ELSE "idle"]
    /\ loop = 0
    /\ payload = [r \in Requests |-> NoPayload]
    /\ mailerCalls = [r \in Requests |-> 0]
    /\ mailerArgs = [r \in Requests |-> NoPayload]
    /\ message = [r \in Requests |-> NoMessage]
    /\ conns = <<>>
    /\ server = [r \in Requests |-> 0]
    /\ steps = [r \in Requests |-> <<>>]
    /\ exc = [r \in Requests |-> {}]
    /\ outbox = <<>>
    /\ resp = [r \in Requests |-> NoResp]

NextEmail ==
    \/ Dispatch(1)
    \/ Connect(1)
    \/ Login(1)
    \/ Sendmail(1)
    \/ Exit(1)

SpecEmail == InitEmail /\ [][NextEmail]_vars

-----------------------------------------------------------------------------
\* Vocabulary of the properties

Done(r) == pc[r] = "done"

\* the x-internal-api-key header is absent or differs from the configured key
HeaderAbsentOrDiffers(r) ==
    req[r].header = {} \/ req[r].header # INTERNAL_API_KEY

\* the JSON body has both fields and a well-formed address
WellFormedBody(r) ==
    req[r].has_email /\ req[r].has_username /\ IsValidEmail(req[r].email)

\* send_gmail was called for r and returned normally
MailerSucceeded(r) == Done(r) /\ mailerCalls[r] > 0 /\ exc[r] = {}

\* send_gmail was called for r and raised
MailerRaised(r) == Done(r) /\ mailerCalls[r] > 0 /\ exc[r] # {}

Sent(r) == {i \in 1..Len(outbox) : outbox[i].request = r}

ConnsOf(r) == {i \in 1..Len(conns) : conns[i].owner = r}

-----------------------------------------------------------------------------
\* C1 as stated: every answered request whose key header is absent or differs
\* from INTERNAL_API_KEY is answered 401, whatever its body is.
C1_UnauthorizedWhateverBody ==
    \A r \in Requests :
        Done(r) /\ HeaderAbsentOrDiffers(r) => resp[r].status = 401

\* C1 amended: a request whose key header is absent or differs from
\* INTERNAL_API_KEY is answered 401 when its body passes validation and 422
\* when it does not; in both cases send_gmail is never called for it.
C1_UnauthorizedWhenBodyValid ==
    \A r \in Requests :
        pc[r] # "idle" /\ HeaderAbsentOrDiffers(r) =>
            /\ mailerCalls[r] = 0
            /\ Done(r) /\ WellFormedBody(r) => resp[r] = Unauthorized
            /\ Done(r) /\ ~WellFormedBody(r) => resp[r] = ValidationError

C1_Witness ==
    \E r \in Requests :
        /\ Done(r) /\ WellFormedBody(r)
        /\ req[r].header = {"k2"} /\ INTERNAL_API_KEY = {"k1"}
        /\ resp[r].status = 401

\* C2: a request whose email is not a syntactically valid address is answered
\* 422 and send_gmail is never called for it, whatever the key header is.
C2_InvalidEmailRejected ==
    \A r \in Requests :
        pc[r] # "idle" /\ req[r].has_email /\ ~IsValidEmail(req[r].email) =>
            /\ mailerCalls[r] = 0
            /\ steps[r] = <<>>
            /\ Done(r) => resp[r].status = 422

C2_Witness ==
    \E r \in Requests :
        /\ Done(r) /\ req[r].has_email /\ ~IsValidEmail(req[r].email)
        /\ Len(req[r].email) = 5 /\ AtPositions(req[r].email) # {}
        /\ req[r].header = {"k1"} /\ INTERNAL_API_KEY = {"k1"}
        /\ resp[r].status = 422

\* C3: when send_gmail raises for a valid authorized request, the response is
\* 500 with detail "Failed to send email: " followed by the error's text, and
\* send_gmail was called exactly once for the request, with one connection
\* attempt.
C3_MailerErrorIs500 ==
    \A r \in Requests :
        MailerRaised(r) =>
            /\ resp[r].status = 500
            /\ \E e \in exc[r] : resp[r].body = <<"Failed to send email: ", e>>
            /\ mailerCalls[r] = 1
            /\ Cardinality({i \in 1..Len(steps[r]) : steps[r][i][1] = "connect"}) = 1

C3_Witness ==
    \E r \in Requests :
        /\ MailerRaised(r)
        /\ exc[r] = {"SMTPRecipientsRefused"}
        /\ resp[r].status = 500

\* C4 as stated: when send_gmail succeeds, it was called once with the email
\* and username exactly as the request body carries them, and the response is
\* 200 "Email sent successfully to " followed by that email.
C4_CalledWithBodyEmail ==
    \A r \in Requests :
        MailerSucceeded(r) =>
            /\ mailerCalls[r] = 1
            /\ mailerArgs[r] = [email |-> req[r].email, username |-> req[r].username]
            /\ resp[r] = [status |-> 200,
                          body |-> <<"Email sent successfully to ">> \o req[r].email]

\* C4 amended: when send_gmail succeeds, it was called once with the body's
\* username and with the body's email as validation normalised it (blanks
\* around it removed, domain in lower case, local part unchanged), and the
\* response is 200 "Email sent successfully to " followed by exactly the
\* address send_gmail was given; that address is the body's own text when the
\* body's email has no surrounding blanks and no upper-case letter in its domain.
C4_CalledWithNormalisedEmail ==
    \A r \in Requests :
        MailerSucceeded(r) =>
            LET e == strip(req[r].email)
                d == domain_part(e)
            IN  /\ mailerCalls[r] = 1
                /\ mailerArgs[r].username = req[r].username
                /\ mailerArgs[r].email =
                      local_part(e) \o <<"@">> \o [i \in 1..Len(d) |-> lower(d[i])]
                /\ resp[r] = [status |-> 200,
                              body |-> <<"Email sent successfully to ">>
                                         \o mailerArgs[r].email]
                /\ (e = req[r].email /\ \A i \in 1..Len(d) : d[i] \notin {"A", "B"})
                      => mailerArgs[r].email = req[r].email

C4_Witness ==
    \E r \in Requests :
        /\ MailerSucceeded(r)
        /\ req[r].email = <<"a", "@", "b", ".", "a">>
        /\ req[r].username = "Alice"
        /\ mailerArgs[r] = [email |-> <<"a", "@", "b", ".", "a">>, username |-> "Alice"]
        /\ resp[r].body = <<"Email sent successfully to ", "a", "@", "b", ".", "a">>

\* C5: once a call of send_gmail has returned or raised, no connection it
\* opened is still open; a call opens at most one connection, and a message
\* travels over the connection opened by its own request's call.
C5_ConnectionReleased ==
    /\ \A r \in Requests :
         /\ Done(r) => \A i \in ConnsOf(r) : conns[i].state = "closed"
         /\ Cardinality(ConnsOf(r)) <= 1
         /\ server[r] # 0 => conns[server[r]].owner = r
    /\ \A i \in 1..Len(outbox) :
         /\ outbox[i].conn # 0
         /\ conns[outbox[i].conn].owner = outbox[i].request

C5_Witness ==
    \E r \in Requests :
        /\ Done(r)
        /\ steps[r] = << <<"connect", TRUE>>, <<"login", FALSE>>, <<"close", TRUE>> >>
        /\ ConnsOf(r) # {}
        /\ \A i \in ConnsOf(r) : conns[i].state = "closed"

\* C6: while one request is inside the SMTP round-trip, another request that
\* has arrived can be processed and answered.
C6_OthersNotStalled ==
    \A r, q \in Requests :
        (r # q /\ pc[r] \in {"connect", "login", "sendmail", "exit"}
               /\ pc[q] = "pending")
            => ENABLED Dispatch(q)

\* C7: a request whose body lacks username or lacks email is answered 422 and
\* send_gmail is never called for it.
C7_MissingFieldRejected ==
    \A r \in Requests :
        pc[r] # "idle" /\ (~req[r].has_email \/ ~req[r].has_username) =>
            /\ mailerCalls[r] = 0
            /\ Sent(r) = {}
            /\ Done(r) => resp[r].status = 422

C7_Witness ==
    \E r \in Requests :
        /\ Done(r)
        /\ ~req[r].has_username /\ req[r].has_email /\ IsValidEmail(req[r].email)
        /\ req[r].header = {"k1"} /\ INTERNAL_API_KEY = {"k1"}
        /\ resp[r].status = 422

\* C8: the login link of the message send_gmail builds is FRONTEND_URL, then
\* "/login?email=", then the address send_gmail was given, character for
\* character, and the href and the plain-text copy in the HTML are that link.
C8_LoginLinkLiteral ==
    \A r \in Requests :
        mailerCalls[r] > 0 =>
            LET link == FRONTEND_URL \o <<"/login?email=">> \o mailerArgs[r].email
            IN  /\ message[r].html[4] = link
                /\ message[r].html[6] = link
                /\ \A i \in Sent(r) : /\ outbox[i].msg.html[4] = link
                                      /\ outbox[i].msg.html[6] = link

C8_Witness ==
    \E i \in 1..Len(outbox) :
        /\ FRONTEND_URL = <<"https://lms.example">>
        /\ outbox[i].to_addrs = <<"B", "@", "b", ".", "a">>
        /\ outbox[i].msg.html[4] =
              <<"https://lms.example", "/login?email=", "B", "@", "b", ".", "a">>

\* C9: send_gmail is called for a request only if its key header is present,
\* non-empty and equal to INTERNAL_API_KEY; when INTERNAL_API_KEY is unset or
\* empty no request is authorized and nothing is sent.
C9_MailerOnlyWithKey ==
    /\ \A r \in Requests :
         mailerCalls[r] > 0 =>
            /\ req[r].header # {}
            /\ req[r].header # {""}
            /\ req[r].header = INTERNAL_API_KEY
    /\ INTERNAL_API_KEY \in {{}, {""}} =>
         /\ outbox = <<>>
         /\ \A r \in Requests :
              /\ mailerCalls[r] = 0
              /\ Done(r) => resp[r].status \in {401, 422}

C9_Witness ==
    \E r \in Requests :
        /\ INTERNAL_API_KEY = {""} /\ req[r].header = {""}
        /\ WellFormedBody(r) /\ Done(r)
        /\ resp[r].status = 401

\* C10: inside one call of send_gmail the operations run in the order connect,
\* login, sendmail, close; sendmail is attempted only after connect and login
\* succeeded; a call transmits at most one message, to the one address it was
\* given, and none when connect or login failed; the response is 200 only if
\* connect, login and sendmail all succeeded, and 500 otherwise.
C10_ConnectLoginSendClose ==
    \A r \in Requests :
        LET t == steps[r]
        IN  /\ \A i \in 1..Len(t) :
                 /\ t[i][1] = "connect" => i = 1
                 /\ t[i][1] = "login" => i = 2 /\ t[1] = <<"connect", TRUE>>
                 /\ t[i][1] = "sendmail" =>
                       i = 3 /\ t[1] = <<"connect", TRUE>> /\ t[2] = <<"login", TRUE>>
                 /\ t[i][1] = "close" => i = Len(t) /\ i > 2
            /\ Cardinality(Sent(r)) <= 1
            /\ Sent(r) # {} => Len(t) >= 3 /\ t[3] = <<"sendmail", TRUE>>
            /\ \A i \in Sent(r) : outbox[i].to_addrs = mailerArgs[r].email
            /\ Done(r) /\ resp[r].status = 200 =>
                  /\ SubSeq(t, 1, 3) = << <<"connect", TRUE>>, <<"login", TRUE>>,
                                          <<"sendmail", TRUE>> >>
                  /\ Cardinality(Sent(r)) = 1
            /\ Done(r) /\ mailerCalls[r] > 0 /\ resp[r].status # 200 =>
                  resp[r].status = 500

C10_Witness ==
    \E r \in Requests :
        /\ Done(r)
        /\ steps[r] = << <<"connect", TRUE>>, <<"login", TRUE>>,
                         <<"sendmail", TRUE>>, <<"close", TRUE>> >>
        /\ resp[r].status = 200
        /\ Cardinality(Sent(r)) = 1

====
